---- MODULE Spec2Model ----
(***************************************************************************)
(* A model of the SoroScan TypeScript SDK client                            *)
(* (src/sdk/typescript/src/client.ts): the constructor, the private        *)
(* #request pipeline (URL, headers, timeout timer, fetch, decoding, error   *)
(* normalisation) and the thirteen public methods built on it.             *)
(*                                                                         *)
(* JavaScript strings are sequences of tokens: every character the code    *)
(* inspects or rewrites is a token of its own ("/", "?", " ", ...), and a   *)
(* literal the code only copies is one token ("v1", "Bearer ").            *)
(* JavaScript values are records with a tag field t.                       *)
(***************************************************************************)
EXTENDS Integers, Sequences, FiniteSets, TLC

\* ------------------------------------------------------------------ bounds

\* Number of call slots (concurrent invocations on the one client).
MaxCalls == 2

Calls == 1..MaxCalls

\* The slots used by a caller that awaits each call before the next one.
SeqCalls == {1}

\* ------------------------------------------------------- JavaScript values

U == [t |-> "undefined"]
N == [t |-> "null"]
Str(s) == [t |-> "str", s |-> s]
Num(n) == [t |-> "num", n |-> n]
Bool(b) == [t |-> "bool", b |-> b]
\* The number 10^e for an e of 21 or more, beyond the integers written out.
PowerOfTen(e) == [t |-> "pow10", e |-> e]

Digits == <<"0", "1", "2", "3", "4", "5", "6", "7", "8", "9">>

RECURSIVE DecimalText(_)
\* Number.prototype.toString for a non-negative integer below 10^21.
DecimalText(n) ==
  IF n < 10 THEN <<Digits[n + 1]>>
  ELSE DecimalText(n \div 10) \o <<Digits[(n % 10) + 1]>>

\* String(v) of client.ts:49 and of a template literal; a number of 10^21 or
\* more is written in exponent notation.
JsString(v) ==
  CASE v.t = "str" -> v.s
    [] v.t = "num" -> DecimalText(v.n)
    [] v.t = "pow10" -> <<"1", "e", "+">> \o DecimalText(v.e)
    [] v.t = "bool" -> IF v.b THEN <<"true">> ELSE <<"false">>
    [] v.t = "undefined" -> <<"undefined">>
    [] v.t = "null" -> <<"null">>
    [] OTHER -> <<"[object Object]">>

\* A lone UTF-16 surrogate: a code unit that is not part of a pair.
LoneSurrogate == "\\uD800"

\* Characters encodeURIComponent leaves alone: A-Z a-z 0-9 - _ . ! ~ * ' ( )
UriUnreserved == {"a", "b", "C", "G", "w", "h", "1", "0", "_", "-", ".", "~", "!", "*"}

\* encodeURIComponent throws URIError on a string with a lone surrogate.
UriEncodable(s) == \A i \in 1..Len(s) : s[i] # LoneSurrogate

\* encodeURI instead: the characters with a meaning in a URL are left alone.
UriEncodeCharAsUri(ch) ==
  CASE ch = " " -> <<"%20">>
    [] ch = "%" -> <<"%25">>
    [] OTHER -> <<ch>>

UriEncodeChar(ch) ==
  CASE ch \in UriUnreserved -> <<ch>>
    [] ch = "/" -> <<"%2F">>
    [] ch = "?" -> <<"%3F">>
    [] ch = "#" -> <<"%23">>
    [] ch = "&" -> <<"%26">>
    [] ch = "=" -> <<"%3D">>
    [] ch = "+" -> <<"%2B">>
    [] ch = " " -> <<"%20">>
    [] ch = "%" -> <<"%25">>
    [] OTHER -> <<ch>>

RECURSIVE encodeURIComponent(_)
encodeURIComponent(s) ==
  IF s = <<>> THEN <<>>
  ELSE UriEncodeChar(Head(s)) \o encodeURIComponent(Tail(s))

\* What percent-decoding makes of one token of a path segment.
UriDecodeToken(tok) ==
  CASE tok = "%2F" -> "/"
    [] tok = "%3F" -> "?"
    [] tok = "%23" -> "#"
    [] tok = "%26" -> "&"
    [] tok = "%3D" -> "="
    [] tok = "%2B" -> "+"
    [] tok = "%20" -> " "
    [] tok = "%25" -> "%"
    [] OTHER -> tok

UriDecode(s) == [i \in 1..Len(s) |-> UriDecodeToken(s[i])]

\* A serializer that escapes nothing but the space.
FormEncodeCharRaw(ch) == IF ch = " " THEN <<"+">> ELSE <<ch>>

\* Characters the application/x-www-form-urlencoded serializer leaves alone:
\* A-Z a-z 0-9 * - . _
FormUnreserved == {"a", "b", "C", "G", "w", "h", "1", "0", "_", "-", ".", "*"}

FormEncodeChar(ch) ==
  CASE ch \in FormUnreserved -> <<ch>>
    [] ch = " " -> <<"+">>
    [] ch = "/" -> <<"%2F">>
    [] ch = "?" -> <<"%3F">>
    [] ch = "#" -> <<"%23">>
    [] ch = "&" -> <<"%26">>
    [] ch = "=" -> <<"%3D">>
    [] ch = "+" -> <<"%2B">>
    [] ch = "%" -> <<"%25">>
    [] ch = "~" -> <<"%7E">>
    [] ch = "!" -> <<"%21">>
    [] ch = LoneSurrogate -> <<"%EF%BF%BD">>
    [] OTHER -> <<ch>>

RECURSIVE FormEncode(_)
\* URLSearchParams serialisation of one name or value.
FormEncode(s) ==
  IF s = <<>> THEN <<>>
  ELSE FormEncodeChar(Head(s)) \o FormEncode(Tail(s))

\* ------------------------------------------------------------ toQueryString

\* A filter on truthiness: it also drops "", 0 and false.
PresentEntriesTruthy(params) ==
  SelectSeq(params, LAMBDA e : e[2] \notin {U, N, Str(<<>>), Num(0), Bool(FALSE)})

RECURSIVE PresentEntries(_)
\* Object.entries(params).filter(([, v]) => v !== undefined && v !== null)
PresentEntries(params) ==
  IF params = <<>> THEN <<>>
  ELSE IF Head(params)[2] = U \/ Head(params)[2] = N
       THEN PresentEntries(Tail(params))
       ELSE <<Head(params)>> \o PresentEntries(Tail(params))

RECURSIVE SerializePairs(_)
\* URLSearchParams(...).toString(): name=value joined by "&".
SerializePairs(entries) ==
  IF entries = <<>> THEN <<>>
  ELSE FormEncode(Head(entries)[1]) \o <<"=">> \o FormEncode(JsString(Head(entries)[2]))
       \o (IF Tail(entries) = <<>> THEN <<>> ELSE <<"&">> \o SerializePairs(Tail(entries)))

toQueryString(params) ==
  IF PresentEntries(params) = <<>> THEN <<>>
  ELSE <<"?">> \o SerializePairs(PresentEntries(params))

\* ------------------------------------------------------------- error values

\* Every thrown value is a record of the same shape; id tells values apart
\* that are otherwise equal (JavaScript object identity).
MkError(cls, isError, name, message, statusCode, code, details, id) ==
  [cls |-> cls, isError |-> isError, name |-> name, message |-> message,
   statusCode |-> statusCode, code |-> code, details |-> details, id |-> id]

\* throw new Error("SoroScanClient: baseUrl is required")
ConfigurationError ==
  MkError("Error", TRUE, "Error", <<"SoroScanClient: baseUrl is required">>, U, U, U, "ctor")

\* throw new Error(`SoroScanClient: request timed out after ${timeoutMs}ms`)
TimeoutError(timeoutMs) ==
  MkError("Error", TRUE, "Error",
          <<"SoroScanClient: request timed out after ">> \o DecimalText(timeoutMs) \o <<"ms">>,
          U, U, U, "timeout")

\* The URIError encodeURIComponent throws on a malformed string.
UriError ==
  MkError("URIError", TRUE, "URIError", <<"URI malformed">>, U, U, U, "uri")

\* The rejection of fetch when this call's controller.abort() ran:
\* signal.reason, a DOMException named AbortError.
SignalAbortReason(c) ==
  MkError("DOMException", TRUE, "AbortError", <<"This operation was aborted">>, U, U, U, <<"signal", c>>)

\* Rejections of fetch that do not come from the call's own signal: a network
\* failure (TypeError), an AbortError raised by the runtime or a replaced
\* global fetch for its own reasons, and a thrown value that is not an Error.
FetchFailures ==
  { MkError("TypeError", TRUE, "TypeError", <<"Failed to fetch">>, U, U, U, "net1"),
    MkError("DOMException", TRUE, "AbortError", <<"Fetch is aborted">>, U, U, U, "net2"),
    MkError("Object", FALSE, "AbortError", <<"cancelled">>, U, U, U, "net3") }

\* Property read on a parsed JSON value: undefined unless an object has it.
Prop(v, key) ==
  IF v.t = "obj"
  THEN CASE key = "code" -> v.code
         [] key = "message" -> v.message
         [] key = "details" -> v.details
         [] OTHER -> U
  ELSE U

\* super(message) of the Error constructor: no argument leaves message "".
ErrorMessage(m) == IF m = U THEN <<>> ELSE JsString(m)

\* new SoroScanError(statusCode, apiError)
SoroScanError(statusCode, apiError) ==
  MkError("SoroScanError", TRUE, "SoroScanError",
          ErrorMessage(Prop(apiError, "message")),
          statusCode, Prop(apiError, "code"), Prop(apiError, "details"), "api")

\* ---------------------------------------------------------------- responses

Obj(code, message, details, data) ==
  [t |-> "obj", code |-> code, message |-> message, details |-> details, data |-> data]

StatusNoContent == 204
OkMin == 200
OkMax == 299

\* Response.ok
ResponseOk(status) == status >= OkMin /\ status <= OkMax

\* Bodies of the API Error shape {code: string, message: string, details?: object}.
ApiErrorBodies ==
  { Obj(Str(<<"NOT_FOUND">>), Str(<<"Webhook not found">>), U, U),
    Obj(Str(<<"RATE_LIMITED">>), Str(<<"Slow down">>), Obj(U, U, U, Str(<<"retryAfter">>)), U) }

ConformsToApiError(v) ==
  /\ v.t = "obj"
  /\ v.code.t = "str"
  /\ v.message.t = "str"
  /\ v.details.t \in {"undefined", "obj"}

\* JSON values that are not of the API Error shape: an object without code
\* and message ({"error": ...}), an object whose code is a number, a number.
OtherJsonBodies ==
  { Obj(U, U, U, Str(<<"payload">>)),
    Obj(Num(7), U, U, U),
    Num(0) }

\* A page of a list: items, pageInfo and totalCount as the service sent them.
Page(items, pageInfo, totalCount) ==
  [t |-> "page", items |-> items, pageInfo |-> pageInfo, totalCount |-> totalCount]

\* A page whose items are out of order and repeat, and whose totalCount is
\* not the number of items.
PageBodies ==
  { Page(<<"ev_2", "ev_1", "ev_2">>,
         [hasNextPage |-> TRUE, hasPreviousPage |-> FALSE,
          startCursor |-> Str(<<"ev_2">>), endCursor |-> N],
         Num(7)) }

\* What a response body can be: JSON text of some value (null included),
\* text that is not JSON, or nothing at all.
Bodies ==
  { [kind |-> "json", value |-> v] : v \in ApiErrorBodies \cup OtherJsonBodies \cup PageBodies \cup {N} }
  \cup { [kind |-> "notjson", value |-> U], [kind |-> "empty", value |-> U] }

StatusLines ==
  { <<200, "OK">>, <<201, "Created">>, <<304, "Not Modified">>,
    <<404, "Not Found">>, <<500, "Internal Server Error">> }

\* A 204 carries no body.
NoContentResponse ==
  [status |-> StatusNoContent, statusText |-> "No Content", body |-> [kind |-> "empty", value |-> U]]

Responses ==
  { [status |-> sl[1], statusText |-> sl[2], body |-> b] : sl \in StatusLines, b \in Bodies }
  \cup { NoContentResponse }

NoResponse == [status |-> 0, statusText |-> "", body |-> [kind |-> "empty", value |-> U]]

\* A parse failure swallowed without a replacement value.
ParsedJsonUndefined(body, bodyAborted) ==
  IF body.kind = "json" /\ ~bodyAborted THEN body.value ELSE U

\* await response.json().catch(() => null): the parsed value, or null when
\* the body is not JSON, is empty, or its read was aborted.
ParsedJson(body, bodyAborted) ==
  IF body.kind = "json" /\ ~bodyAborted THEN body.value ELSE N

\* An error body that is never looked at: always the synthesized fallback.
ApiErrorOfStatusOnly(json, status, statusText) ==
  Obj(Str(<<"UNKNOWN_ERROR">>),
      Str(<<"HTTP ">> \o DecimalText(status) \o <<" ">> \o <<statusText>>), U, U)

\* json ?? { code: "UNKNOWN_ERROR", message: `HTTP ${status} ${statusText}` }
ApiErrorOf(json, status, statusText) ==
  IF json = N \/ json = U
  THEN Obj(Str(<<"UNKNOWN_ERROR">>),
           Str(<<"HTTP ">> \o DecimalText(status) \o <<" ">> \o <<statusText>>), U, U)
  ELSE json

\* ------------------------------------------------------------------- state

VARIABLES
  client,     \* the constructed client's private fields, or NoClient
  ctorConfig, \* the config the constructor was called with, or U
  ctorThrown, \* the error the constructor threw, or U
  pc,         \* per call: "idle", "fetch" (await fetch), "json" (await response.json()), "done"
  inv,        \* per call: the method invoked and its arguments
  sent,       \* per call: the requests handed to fetch, oldest first
  timer,      \* per call: "unset", "armed", "fired", "cleared"
  timerMs,    \* per call: the delay setTimeout was given, or U
  aborted,    \* per call: controller.signal.aborted
  response,   \* per call: the Response fetch resolved with
  rejection,  \* per call: the value fetch rejected with, or U
  bodyRead,   \* per call: whether response.json() was called
  outcome,    \* per call: how the returned promise settled
  hooks,      \* the service's webhook store: per identifier, its state
  reply,      \* per call: the service's response still on its way, or NoResponse
  orphan,     \* per caller: the request of an ended call still on its way, or NoRequest
  loop        \* the documented pagination loop: its position, its variable after,
              \* the pages it processed, and the page chain the service holds

clientVars == <<client, ctorConfig, ctorThrown>>

callVars == <<pc, inv, sent, timer, timerMs, aborted, response, rejection, bodyRead, outcome>>

serviceVars == <<hooks, reply, orphan>>

callerVars == <<loop>>
vars == <<clientVars, callVars, serviceVars, callerVars>>

NoClient == [t |-> "none"]
NoInvocation == [method |-> "none", id |-> U, query |-> U, body |-> U]
NoOutcome == [kind |-> "none", v |-> U]
Returned(v) == [kind |-> "value", v |-> v]
Thrown(e) == [kind |-> "error", v |-> e]

\* ------------------------------------------------------------ webhook store

\* Identifiers the service mints for webhooks.
HookIds == { <<"w", "h", "_", "1">>, <<"a", "/", "b">> }

\* No request.
NoRequest == [method |-> "none", url |-> <<>>, headers |-> {}, body |-> U]

\* No webhook has been created yet.
\* No pagination loop is running.
NoLoop == [pc |-> "off", after |-> N, visited |-> <<>>, chain |-> <<>>]

NoHooks == [h \in HookIds |-> "none"]

\* ------------------------------------------------------------- constructor

DefaultTimeoutMs == 30000

\* A test for a missing value only: "" passes as a base URL.
FalsyNullish(v) == v = U \/ v = N

\* !config.baseUrl
Falsy(v) == v = U \/ v = N \/ v = Str(<<>>) \/ v = Num(0)

\* config.baseUrl.replace(/\/$/, ""): drops one "/" at the end, if any.
StripTrailingSlash(s) ==
  IF Len(s) > 0 /\ s[Len(s)] = "/" THEN SubSeq(s, 1, Len(s) - 1) ELSE s

\* config.timeoutMs || 30_000: a timeout of 0 is taken for a missing one.
EffectiveTimeoutOr(timeoutMs) ==
  IF timeoutMs = U \/ timeoutMs = N \/ timeoutMs = Num(0) THEN DefaultTimeoutMs ELSE timeoutMs.n

\* config.timeoutMs ?? 30_000
EffectiveTimeout(timeoutMs) ==
  IF timeoutMs = U \/ timeoutMs = N THEN DefaultTimeoutMs ELSE timeoutMs.n

\* The fields the constructor stores (client.ts:65-67).
ClientOf(config) ==
  [t |-> "client",
   baseUrl |-> StripTrailingSlash(config.baseUrl.s),
   apiKey |-> config.apiKey,
   timeoutMs |-> EffectiveTimeout(config.timeoutMs)]

\* new SoroScanClient(config)
Construct(config) ==
  /\ client = NoClient
  /\ ctorThrown = U
  /\ ctorConfig = U
  /\ ctorConfig' = config
  /\ IF Falsy(config.baseUrl)
     THEN /\ ctorThrown' = ConfigurationError
          /\ client' = client
     ELSE /\ client' = ClientOf(config)
          /\ ctorThrown' = ctorThrown
  /\ UNCHANGED callVars

\* ----------------------------------------------------------------- requests

ListMethods == {"getEvents", "getContracts", "getTransactions", "getLedgers"}
ByIdMethods == {"getContract", "getTransaction", "getAccount",
                "getWebhook", "updateWebhook", "deleteWebhook"}
BodyMethods == {"subscribeWebhook", "updateWebhook"}
Methods == ListMethods \cup ByIdMethods \cup {"getLedger", "subscribeWebhook", "listWebhooks"}

\* Every method a read.
VerbOfReadOnly(m) == "GET"

\* The HTTP verb each method passes to #request.
VerbOf(m) ==
  CASE m = "subscribeWebhook" -> "POST"
    [] m = "updateWebhook" -> "PATCH"
    [] m = "deleteWebhook" -> "DELETE"
    [] OTHER -> "GET"

\* The resource prefix of each method's path.
PrefixOf(m) ==
  CASE m \in {"getEvents"} -> <<"/", "v1", "/", "events">>
    [] m \in {"getContracts", "getContract"} -> <<"/", "v1", "/", "contracts">>
    [] m \in {"getTransactions", "getTransaction"} -> <<"/", "v1", "/", "transactions">>
    [] m \in {"getLedgers", "getLedger"} -> <<"/", "v1", "/", "ledgers">>
    [] m \in {"getAccount"} -> <<"/", "v1", "/", "accounts">>
    [] OTHER -> <<"/", "v1", "/", "webhooks">>

\* Whether building the path throws before #request is entered.
PathThrows(m, id) == m \in ByIdMethods /\ ~UriEncodable(id.s)

\* A path without what follows the prefix.
PathOfPrefixOnly(m, id) == PrefixOf(m)

\* The path argument of #request: the prefix, and for the by-id methods a
\* "/" and the identifier (percent-encoded, or as decimal text for getLedger).
PathOf(m, id) ==
  CASE m \in ByIdMethods -> PrefixOf(m) \o <<"/">> \o encodeURIComponent(id.s)
    [] m = "getLedger" -> PrefixOf(m) \o <<"/">> \o JsString(id)
    [] OTHER -> PrefixOf(m)

\* A check for presence instead of truthiness: apiKey !== undefined.
HasCredentialDefined(apiKey) == apiKey # U

\* if (this.#apiKey): a non-empty string.
HasCredential(apiKey) == ~Falsy(apiKey)

\* The headers object of client.ts:85-91, as a set of <<name, value>>.
HeadersOf(apiKey) ==
  { <<"Content-Type", <<"application/json">>>>, <<"Accept", <<"application/json">>>> }
  \cup (IF HasCredential(apiKey)
        THEN { <<"Authorization", <<"Bearer ">> \o apiKey.s>> }
        ELSE {})

RECURSIVE DefinedEntries(_)
\* JSON.stringify leaves out the properties whose value is undefined.
DefinedEntries(entries) ==
  IF entries = <<>> THEN <<>>
  ELSE IF Head(entries)[2] = U
       THEN DefinedEntries(Tail(entries))
       ELSE <<Head(entries)>> \o DefinedEntries(Tail(entries))

\* init.body: set only if options.body !== undefined.
BodyOf(body) ==
  IF body = U THEN U ELSE [t |-> "jsontext", entries |-> DefinedEntries(body.entries)]

\* The url and init handed to fetch (client.ts:80-106).
RequestOf(cl, m, a) ==
  [method |-> VerbOf(m),
   url |-> cl.baseUrl \o PathOf(m, a.id) \o (IF a.query # U THEN toQueryString(a.query.entries) ELSE <<>>),
   headers |-> HeadersOf(cl.apiKey),
   body |-> BodyOf(a.body)]

\* ------------------------------------------------------------- sample inputs

Arr(items) == [t |-> "arr", items |-> items]
Bag(entries) == [t |-> "bag", entries |-> entries]

\* Configurations handed to the constructor.
BaseUrls == { Str(<<>>), Str(<<"https://api.soroscan.io">>), Str(<<"https://api.soroscan.io", "/">>) }
ApiKeys == { U, Str(<<>>), Str(<<"my-api-key">>) }
TimeoutOptions == { U, Num(5000) }

Configs == [baseUrl : BaseUrls, apiKey : ApiKeys, timeoutMs : TimeoutOptions]

\* Identifiers: a plain one, one with a reserved character, one that is not
\* well-formed UTF-16.
SampleIds == { Str(<<"w", "h", "_", "1">>), Str(<<"a", "/", "b">>), Str(<<"a", LoneSurrogate>>) }

MinExponentNotation == 21

SampleSequences == { Num(0), Num(123456), PowerOfTen(MinExponentNotation) }

SampleBags ==
  { Bag(<<>>),
    Bag(<< <<<<"contractId">>, Str(<<"C", "C">>)>>, <<<<"first">>, Num(10)>> >>),
    Bag(<< <<<<"after">>, Str(<<"a", " ", "b">>)>>, <<<<"before">>, U>>, <<<<"last">>, N>> >>) }

SubscribeBodies ==
  { Bag(<< <<<<"url">>, Str(<<"https://myapp.com/hook">>)>>,
           <<<<"triggers">>, Arr(<<"event.created">>)>>,
           <<<<"contractId">>, U>> >>),
    Bag(<< <<<<"url">>, Str(<<>>)>>, <<<<"triggers">>, Arr(<<"event.created">>)>> >>),
    Bag(<< <<<<"url">>, Str(<<"https://myapp.com/hook">>)>>, <<<<"triggers">>, Arr(<<>>)>> >>) }

\* A status field declared as WebhookStatus: "failed" is accepted too.
UpdateBodiesAnyStatus ==
  { Bag(<< <<<<"status">>, Str(<<st>>)>> >>) : st \in {"active", "paused", "failed"} }

\* UpdateWebhookParams: status is "active" | "paused".
UpdateBodies ==
  { Bag(<< <<<<"status">>, Str(<<"paused">>)>> >>),
    Bag(<< <<<<"status">>, Str(<<"active">>)>> >>) }

\* The arguments each method can be invoked with.
ArgsOf(m) ==
  CASE m \in ListMethods -> [id : {U}, query : SampleBags, body : {U}]
    [] m = "updateWebhook" -> [id : SampleIds, query : {U}, body : UpdateBodies]
    [] m \in ByIdMethods -> [id : SampleIds, query : {U}, body : {U}]
    [] m = "getLedger" -> [id : SampleSequences, query : {U}, body : {U}]
    [] m = "subscribeWebhook" -> [id : {U}, query : {U}, body : SubscribeBodies]
    [] OTHER -> [id : {U}, query : {U}, body : {U}]

\* -------------------------------------------------------------------- calls

\* A finally block that forgets the timer.
ClearTimeoutForgotten(t) == t

\* clearTimeout(timer): disarms an armed timer, and is a no-op otherwise.
ClearTimeout(t) == IF t = "armed" THEN "cleared" ELSE t

\* A catch block that rethrows whatever fetch rejected with.
IsAbortErrorNever(err) == FALSE

\* err instanceof Error && err.name === "AbortError"
IsAbortError(err) == err.isError /\ err.name = "AbortError"

\* The catch block of client.ts:107-111.
CatchOutcome(err, timeoutMs) ==
  IF IsAbortError(err) THEN Thrown(TimeoutError(timeoutMs)) ELSE Thrown(err)

\* A decoder that hands back any parsed body and raises only without one.
DecodeBodyFirst(r, json) ==
  IF json # N
  THEN Returned(json)
  ELSE IF ~ResponseOk(r.status)
       THEN Thrown(SoroScanError(r.status, ApiErrorOf(json, r.status, r.statusText)))
       ELSE Returned(json)

\* A decoder that recounts a page: totalCount becomes the number of items.
DecodeRecounting(r, json) ==
  IF ~ResponseOk(r.status)
  THEN Thrown(SoroScanError(r.status, ApiErrorOf(json, r.status, r.statusText)))
  ELSE Returned(IF json.t = "page" THEN [json EXCEPT !.totalCount = Num(Len(json.items))] ELSE json)

\* A decoder without the 204 branch.
IsNoContentMissing(r) == FALSE

\* response.status === 204
IsNoContent(r) == r.status = StatusNoContent

\* client.ts:123-131: an Api error for a non-ok status, else the parsed body.
Decode(r, json) ==
  IF ~ResponseOk(r.status)
  THEN Thrown(SoroScanError(r.status, ApiErrorOf(json, r.status, r.statusText)))
  ELSE Returned(json)

\* A method that does not wait for fetch: the caller has its result,
\* undefined, as soon as the request is handed over.
InvokeNotAwaiting(c, m, a) ==
  /\ client # NoClient
  /\ pc[c] \in {"idle", "done"}
  /\ ~PathThrows(m, a.id)
  /\ inv' = [inv EXCEPT ![c] = [method |-> m, id |-> a.id, query |-> a.query, body |-> a.body]]
  /\ aborted' = [aborted EXCEPT ![c] = FALSE]
  /\ response' = [response EXCEPT ![c] = NoResponse]
  /\ rejection' = [rejection EXCEPT ![c] = U]
  /\ bodyRead' = [bodyRead EXCEPT ![c] = FALSE]
  /\ pc' = [pc EXCEPT ![c] = "fetch"]
  /\ outcome' = [outcome EXCEPT ![c] = Returned(U)]
  /\ sent' = [sent EXCEPT ![c] = <<RequestOf(client, m, a)>>]
  /\ timer' = [timer EXCEPT ![c] = "armed"]
  /\ timerMs' = [timerMs EXCEPT ![c] = client.timeoutMs]
  /\ UNCHANGED clientVars

\* A public method is called: it builds the path, and #request runs up to
\* its first suspension, await fetch(url, init), with the timer armed.
Invoke(c, m, a) ==
  /\ client # NoClient
  /\ pc[c] \in {"idle", "done"}
  /\ inv' = [inv EXCEPT ![c] = [method |-> m, id |-> a.id, query |-> a.query, body |-> a.body]]
  /\ aborted' = [aborted EXCEPT ![c] = FALSE]
  /\ response' = [response EXCEPT ![c] = NoResponse]
  /\ rejection' = [rejection EXCEPT ![c] = U]
  /\ bodyRead' = [bodyRead EXCEPT ![c] = FALSE]
  /\ IF PathThrows(m, a.id)
     THEN /\ pc' = [pc EXCEPT ![c] = "done"]
          /\ outcome' = [outcome EXCEPT ![c] = Thrown(UriError)]
          /\ sent' = [sent EXCEPT ![c] = <<>>]
          /\ timer' = [timer EXCEPT ![c] = "unset"]
          /\ timerMs' = [timerMs EXCEPT ![c] = U]
     ELSE /\ pc' = [pc EXCEPT ![c] = "fetch"]
          /\ outcome' = [outcome EXCEPT ![c] = NoOutcome]
          /\ sent' = [sent EXCEPT ![c] = <<RequestOf(client, m, a)>>]
          /\ timer' = [timer EXCEPT ![c] = "armed"]
          /\ timerMs' = [timerMs EXCEPT ![c] = client.timeoutMs]
  /\ UNCHANGED clientVars

\* A response taken without disarming the timer: clearTimeout left to the end
\* of the call.
ServerRespondsTimerKept(c, r) ==
  /\ pc[c] = "fetch"
  /\ response' = [response EXCEPT ![c] = r]
  /\ IF IsNoContent(r)
     THEN /\ pc' = [pc EXCEPT ![c] = "done"]
          /\ outcome' = [outcome EXCEPT ![c] = Returned(U)]
          /\ bodyRead' = bodyRead
          /\ timer' = [timer EXCEPT ![c] = ClearTimeout(@)]
     ELSE /\ pc' = [pc EXCEPT ![c] = "json"]
          /\ outcome' = outcome
          /\ bodyRead' = [bodyRead EXCEPT ![c] = TRUE]
          /\ timer' = timer
  /\ UNCHANGED <<clientVars, inv, sent, timerMs, aborted, rejection>>

\* fetch resolves with a response: finally clears the timer; a 204 returns
\* undefined, any other status goes on to await response.json().
ServerResponds(c, r) ==
  /\ pc[c] = "fetch"
  /\ timer' = [timer EXCEPT ![c] = ClearTimeout(@)]
  /\ response' = [response EXCEPT ![c] = r]
  /\ IF IsNoContent(r)
     THEN /\ pc' = [pc EXCEPT ![c] = "done"]
          /\ outcome' = [outcome EXCEPT ![c] = Returned(U)]
          /\ bodyRead' = bodyRead
     ELSE /\ pc' = [pc EXCEPT ![c] = "json"]
          /\ outcome' = outcome
          /\ bodyRead' = [bodyRead EXCEPT ![c] = TRUE]
  /\ UNCHANGED <<clientVars, inv, sent, timerMs, aborted, rejection>>

\* A catch block that tries the request once more before giving up.
NetworkFailsRetrying(c, e) ==
  /\ pc[c] = "fetch"
  /\ IF Len(sent[c]) < 2
     THEN /\ sent' = [sent EXCEPT ![c] = Append(@, @[1])]
          /\ UNCHANGED <<rejection, outcome, timer, pc>>
     ELSE /\ rejection' = [rejection EXCEPT ![c] = e]
          /\ outcome' = [outcome EXCEPT ![c] = Thrown(e)]
          /\ timer' = [timer EXCEPT ![c] = "cleared"]
          /\ pc' = [pc EXCEPT ![c] = "done"]
          /\ sent' = sent
  /\ UNCHANGED <<clientVars, inv, timerMs, aborted, response, bodyRead>>

\* fetch rejects for a reason of its own: the catch block, then finally.
NetworkFails(c, e) ==
  /\ pc[c] = "fetch"
  /\ rejection' = [rejection EXCEPT ![c] = e]
  /\ outcome' = [outcome EXCEPT ![c] = CatchOutcome(e, client.timeoutMs)]
  /\ timer' = [timer EXCEPT ![c] = ClearTimeout(@)]
  /\ pc' = [pc EXCEPT ![c] = "done"]
  /\ sent' = sent
  /\ UNCHANGED <<clientVars, inv, timerMs, aborted, response, bodyRead>>

\* One controller kept on the client and shared by its calls: any call's timer
\* aborts every request in flight.
TimerFiresShared(c) ==
  /\ timer[c] = "armed"
  /\ aborted' = [d \in Calls |-> aborted[d] \/ pc[d] = "fetch"]
  /\ timer' = [d \in Calls |->
                 IF d = c THEN "fired" ELSE IF pc[d] = "fetch" THEN ClearTimeout(timer[d]) ELSE timer[d]]
  /\ rejection' = [d \in Calls |-> IF pc[d] = "fetch" THEN SignalAbortReason(c) ELSE rejection[d]]
  /\ outcome' = [d \in Calls |->
                   IF pc[d] = "fetch"
                   THEN CatchOutcome(SignalAbortReason(c), client.timeoutMs)
                   ELSE outcome[d]]
  /\ pc' = [d \in Calls |-> IF pc[d] = "fetch" THEN "done" ELSE pc[d]]
  /\ UNCHANGED <<clientVars, inv, sent, timerMs, response, bodyRead>>

\* The timer callback runs controller.abort(). A pending fetch rejects with
\* the signal's abort reason, and the catch block and finally run.
TimerFires(c) ==
  /\ timer[c] = "armed"
  /\ aborted' = [aborted EXCEPT ![c] = TRUE]
  /\ timer' = [timer EXCEPT ![c] = "fired"]
  /\ IF pc[c] = "fetch"
     THEN /\ rejection' = [rejection EXCEPT ![c] = SignalAbortReason(c)]
          /\ outcome' = [outcome EXCEPT ![c] = CatchOutcome(SignalAbortReason(c), client.timeoutMs)]
          /\ pc' = [pc EXCEPT ![c] = "done"]
     ELSE UNCHANGED <<rejection, outcome, pc>>
  /\ UNCHANGED <<clientVars, inv, sent, timerMs, response, bodyRead>>

\* The response kept in a field of the client instead of a local: a call
\* decodes whichever response the field holds, the first one still undecoded.
JsonSettlesShared(c) ==
  /\ pc[c] = "json"
  /\ LET d == CHOOSE d \in Calls : pc[d] = "json" /\ \A e \in Calls : pc[e] = "json" => d <= e
     IN outcome' = [outcome EXCEPT ![c] =
                      Decode(response[d], ParsedJson(response[d].body, aborted[d]))]
  /\ pc' = [pc EXCEPT ![c] = "done"]
  /\ UNCHANGED <<clientVars, inv, sent, timer, timerMs, aborted, response, rejection, bodyRead>>

\* response.json() settles: the rest of #request, client.ts:121-131.
JsonSettles(c) ==
  /\ pc[c] = "json"
  /\ outcome' = [outcome EXCEPT ![c] =
                   Decode(response[c], ParsedJson(response[c].body, aborted[c]))]
  /\ pc' = [pc EXCEPT ![c] = "done"]
  /\ UNCHANGED <<clientVars, inv, sent, timer, timerMs, aborted, response, rejection, bodyRead>>

\* ------------------------------------------------------------ specification

Init ==
  /\ client = NoClient
  /\ ctorConfig = U
  /\ ctorThrown = U
  /\ hooks = NoHooks
  /\ reply = [c \in Calls |-> NoResponse]
  /\ orphan = [c \in Calls |-> NoRequest]
  /\ loop = NoLoop
  /\ pc = [c \in Calls |-> "idle"]
  /\ inv = [c \in Calls |-> NoInvocation]
  /\ sent = [c \in Calls |-> <<>>]
  /\ timer = [c \in Calls |-> "unset"]
  /\ timerMs = [c \in Calls |-> U]
  /\ aborted = [c \in Calls |-> FALSE]
  /\ response = [c \in Calls |-> NoResponse]
  /\ rejection = [c \in Calls |-> U]
  /\ bodyRead = [c \in Calls |-> FALSE]
  /\ outcome = [c \in Calls |-> NoOutcome]

\* One caller that awaits each call before making the next; the service
\* answers anything.
Next ==
  \/ \E config \in Configs : Construct(config) /\ UNCHANGED <<serviceVars, callerVars>>
  \/ \E c \in SeqCalls, m \in Methods : \E a \in ArgsOf(m) : Invoke(c, m, a) /\ UNCHANGED <<serviceVars, callerVars>>
  \/ \E c \in SeqCalls, r \in Responses : ServerResponds(c, r) /\ UNCHANGED <<serviceVars, callerVars>>
  \/ \E c \in SeqCalls, e \in FetchFailures : NetworkFails(c, e) /\ UNCHANGED <<serviceVars, callerVars>>
  \/ \E c \in SeqCalls : TimerFires(c) /\ UNCHANGED <<serviceVars, callerVars>>
  \/ \E c \in SeqCalls : JsonSettles(c) /\ UNCHANGED <<serviceVars, callerVars>>

Spec == Init /\ [][Next]_vars

\* The event loop runs a due timer callback and a settled promise's
\* continuation; the network owes nothing.
LiveSpec ==
  /\ Spec
  /\ \A c \in SeqCalls :
       /\ WF_vars(TimerFires(c) /\ UNCHANGED <<serviceVars, callerVars>>)
       /\ WF_vars(JsonSettles(c) /\ UNCHANGED <<serviceVars, callerVars>>)

\* --------------------------------------------- request-building behaviours

\* Longest parameter bag and longest identifier tried.
MaxBagLen == 2
MaxIdLen == 2

\* Pagination keys every list operation's parameter type declares.
QueryKeys == { <<"first">>, <<"after">>, <<"before">> }

\* Values a bag can hold at run time: absent ones, falsy ones that are
\* present, strings with characters the query syntax reserves, and a string
\* that is not well-formed UTF-16.
QueryValues ==
  { U, N, Str(<<>>), Str(<<"a", "&", "=", " ", "+", "%">>), Str(<<"a", "&", LoneSurrogate>>),
    Num(0), Bool(FALSE) }

\* Object literals: up to MaxBagLen properties, in every insertion order.
QueryBags ==
  { Bag(es) : es \in
      { s \in UNION { [1..n -> QueryKeys \X QueryValues] : n \in 0..MaxBagLen } :
          \A i, j \in 1..Len(s) : i # j => s[i][1] # s[j][1] } }

\* Characters an identifier is made of.
IdChars == { "a", ".", "/", "?", "#", "%", " ", LoneSurrogate }

IdStrings == { Str(s) : s \in UNION { [1..n -> IdChars] : n \in 0..MaxIdLen } }

ReqBaseUrls ==
  { Str(<<>>), Str(<<"/">>), Str(<<"https://api.soroscan.io">>),
    Str(<<"https://api.soroscan.io", "/">>), Str(<<"https://api.soroscan.io", "/", "/">>) }

ReqTimeouts == { U, Num(0), Num(5000) }

\* Every base URL with the default timeout, and every timeout with one base URL.
ReqConfigs ==
  [baseUrl : ReqBaseUrls, apiKey : {U}, timeoutMs : {U}]
  \cup [baseUrl : {Str(<<"https://api.soroscan.io">>)}, apiKey : {U}, timeoutMs : ReqTimeouts]

ReqArgsOf(m) ==
  CASE m \in ListMethods -> [id : {U}, query : QueryBags, body : {U}]
    [] m \in ByIdMethods -> [id : IdStrings, query : {U}, body : {U}]
    [] OTHER -> ArgsOf(m)

\* A client is constructed and one method is called on it, with any
\* configuration and any argument; the call ends by a 204 or by its timer.
ReqNext ==
  \/ \E config \in ReqConfigs : Construct(config) /\ UNCHANGED <<serviceVars, callerVars>>
  \/ \E c \in SeqCalls :
       /\ pc[c] = "idle"
       /\ \E m \in Methods : \E a \in ReqArgsOf(m) : Invoke(c, m, a) /\ UNCHANGED <<serviceVars, callerVars>>
  \/ \E c \in SeqCalls : ServerResponds(c, NoContentResponse) /\ UNCHANGED <<serviceVars, callerVars>>
  \/ \E c \in SeqCalls : TimerFires(c) /\ UNCHANGED <<serviceVars, callerVars>>

ReqSpec == Init /\ [][ReqNext]_vars

\* ---------------------------------------------------------- webhook service

\* The service behind /v1/webhooks as the client observes it: it mints
\* identifiers, keeps each webhook active, paused or failed until it is
\* deleted, and answers a request on a webhook that does not exist with 404.

\* The one client of the webhook behaviours.
HookConfig ==
  [baseUrl |-> Str(<<"https://api.soroscan.io", "/">>), apiKey |-> Str(<<"my-api-key">>), timeoutMs |-> U]

HookMethods == {"subscribeWebhook", "listWebhooks", "getWebhook", "updateWebhook", "deleteWebhook"}

WebhooksPath == <<"/", "v1", "/", "webhooks">>

\* Whether a request addresses one webhook: its path is /v1/webhooks/<segment>.
IsItemRequest(req) ==
  /\ Len(req.url) > 1 + Len(WebhooksPath) + 1
  /\ SubSeq(req.url, 2, 2 + Len(WebhooksPath)) = WebhooksPath \o <<"/">>

\* The identifier an item request addresses: the last segment, decoded.
TargetOf(req) == UriDecode(SubSeq(req.url, 2 + Len(WebhooksPath) + 1, Len(req.url)))

\* Whether the store holds a webhook under the identifier.
IsLive(store, h) == h \in HookIds /\ store[h] \in {"active", "paused", "failed"}

\* The status property of a request's JSON body, or undefined.
RequestedStatus(req) ==
  IF req.body = U THEN U
  ELSE LET es == SelectSeq(req.body.entries, LAMBDA e : e[1] = <<"status">>)
       IN IF es = <<>> THEN U ELSE es[1][2]

\* An update moves a webhook between active and paused, and nowhere else.
NextStatus(current, requested) ==
  IF current \in {"active", "paused"} /\ requested \in {Str(<<"active">>), Str(<<"paused">>)}
  THEN requested.s[1]
  ELSE current

WebhookJson(h, status) == [t |-> "webhook", id |-> h, status |-> status]

JsonResponse(status, statusText, value) ==
  [status |-> status, statusText |-> statusText, body |-> [kind |-> "json", value |-> value]]

NotFoundResponse ==
  JsonResponse(404, "Not Found", Obj(Str(<<"NOT_FOUND">>), Str(<<"Webhook not found">>), U, U))

\* The answer to a subscription when every identifier has been minted.
QuotaResponse ==
  JsonResponse(429, "Too Many Requests", Obj(Str(<<"RATE_LIMITED">>), Str(<<"Slow down">>), U, U))

WebhookListJson(store) ==
  [t |-> "webhooks", items |-> { WebhookJson(h, store[h]) : h \in { i \in HookIds : IsLive(store, i) } }]

\* The identifiers a request can make the service mint: any unused one for a
\* subscription, none otherwise.
NoId == <<>>

MintChoices(req, store) ==
  IF ~IsItemRequest(req) /\ req.method = "POST" /\ (\E f \in HookIds : store[f] = "none")
  THEN { f \in HookIds : store[f] = "none" }
  ELSE { NoId }

\* What handling a request makes of the store, and the response to it; f is
\* the identifier minted, if any.
Handled(req, store, f) ==
  LET h == TargetOf(req)
  IN IF ~IsItemRequest(req)
     THEN IF req.method = "POST"
          THEN IF f # NoId
               THEN [store |-> [store EXCEPT ![f] = "active"],
                     response |-> JsonResponse(201, "Created", WebhookJson(f, "active"))]
               ELSE [store |-> store, response |-> QuotaResponse]
          ELSE [store |-> store, response |-> JsonResponse(200, "OK", WebhookListJson(store))]
     ELSE IF ~IsLive(store, h)
          THEN [store |-> store, response |-> NotFoundResponse]
          ELSE CASE req.method = "DELETE" ->
                      [store |-> [store EXCEPT ![h] = "deleted"], response |-> NoContentResponse]
                 [] req.method = "PATCH" ->
                      [store |-> [store EXCEPT ![h] = NextStatus(@, RequestedStatus(req))],
                       response |-> JsonResponse(200, "OK",
                                      WebhookJson(h, NextStatus(store[h], RequestedStatus(req))))]
                 [] OTHER ->
                      [store |-> store, response |-> JsonResponse(200, "OK", WebhookJson(h, store[h]))]

\* The service takes the request of a call in flight off the network, applies
\* it to its store and puts its response on the way back.
ServiceHandles(c) ==
  /\ pc[c] = "fetch"
  /\ reply[c] = NoResponse
  /\ \E f \in MintChoices(sent[c][1], hooks) :
       /\ hooks' = Handled(sent[c][1], hooks, f).store
       /\ reply' = [reply EXCEPT ![c] = Handled(sent[c][1], hooks, f).response]
  /\ UNCHANGED <<clientVars, callVars, orphan, callerVars>>

\* The service takes a request off the network whose call has already ended:
\* it is applied all the same, and the response goes nowhere.
ServiceHandlesLate(c) ==
  /\ orphan[c] # NoRequest
  /\ \E f \in MintChoices(orphan[c], hooks) : hooks' = Handled(orphan[c], hooks, f).store
  /\ orphan' = [orphan EXCEPT ![c] = NoRequest]
  /\ UNCHANGED <<clientVars, callVars, reply, callerVars>>

\* The service gives up on a webhook whose deliveries keep failing.
ServiceMarksFailed(h) ==
  /\ hooks[h] = "active"
  /\ hooks' = [hooks EXCEPT ![h] = "failed"]
  /\ UNCHANGED <<clientVars, callVars, reply, orphan, callerVars>>

\* A response on its way reaches the call.
Delivers(c) ==
  /\ reply[c] # NoResponse
  /\ ServerResponds(c, reply[c])
  /\ reply' = [reply EXCEPT ![c] = NoResponse]
  /\ hooks' = hooks
  /\ orphan' = orphan
  /\ UNCHANGED callerVars

\* A call ends without a response: it never sees the one on its way, and a
\* request the service has not handled yet stays on its way.
Dropped(c) ==
  /\ reply' = [reply EXCEPT ![c] = NoResponse]
  /\ hooks' = hooks
  /\ orphan' = IF reply[c] = NoResponse THEN [orphan EXCEPT ![c] = sent[c][1]] ELSE orphan
  /\ UNCHANGED callerVars

HookArgsOf(m) ==
  CASE m = "subscribeWebhook" ->
         [id : {U}, query : {U},
          body : { b \in SubscribeBodies :
                     b.entries[1][2] # Str(<<>>) /\ b.entries[2][2] # Arr(<<>>) }]
    [] OTHER -> ArgsOf(m)

\* One caller that awaits each call before the next, against the webhook
\* service; a response can be lost to a network failure or to the timer.
HookNext ==
  \/ Construct(HookConfig) /\ UNCHANGED <<serviceVars, callerVars>>
  \/ \E c \in SeqCalls, m \in HookMethods : \E a \in HookArgsOf(m) :
       Invoke(c, m, a) /\ UNCHANGED <<serviceVars, callerVars>>
  \/ \E c \in SeqCalls : ServiceHandles(c)
  \/ \E c \in SeqCalls : ServiceHandlesLate(c)
  \/ \E h \in HookIds : ServiceMarksFailed(h)
  \/ \E c \in SeqCalls : Delivers(c)
  \/ \E c \in SeqCalls, e \in FetchFailures : NetworkFails(c, e) /\ Dropped(c)
  \/ \E c \in SeqCalls : TimerFires(c) /\ Dropped(c)
  \/ \E c \in SeqCalls : JsonSettles(c) /\ UNCHANGED <<serviceVars, callerVars>>

HookSpec == Init /\ [][HookNext]_vars

\* ------------------------------------------------------- concurrent calls

\* What each concurrent caller calls: a list operation and a delete.
ConcArgsOf(m) ==
  CASE m = "getEvents" -> [id : {U}, query : {Bag(<<>>)}, body : {U}]
    [] OTHER -> [id : {Str(<<"w", "h", "_", "1">>)}, query : {U}, body : {U}]

ConcMethods == {"getEvents", "deleteWebhook"}

ConcResponses ==
  { JsonResponse(200, "OK", Obj(U, U, U, Str(<<"payload">>))), NoContentResponse, NotFoundResponse }

ConcFailures == { e \in FetchFailures : e.name = "TypeError" }

\* Callers that do not wait for each other: every slot holds a call of its
\* own, and their steps interleave in every order.
ConcNext ==
  \/ Construct(HookConfig) /\ UNCHANGED <<serviceVars, callerVars>>
  \/ \E c \in Calls, m \in ConcMethods : \E a \in ConcArgsOf(m) :
       Invoke(c, m, a) /\ UNCHANGED <<serviceVars, callerVars>>
  \/ \E c \in Calls, r \in ConcResponses : ServerResponds(c, r) /\ UNCHANGED <<serviceVars, callerVars>>
  \/ \E c \in Calls, e \in ConcFailures : NetworkFails(c, e) /\ UNCHANGED <<serviceVars, callerVars>>
  \/ \E c \in Calls : TimerFires(c) /\ UNCHANGED <<serviceVars, callerVars>>
  \/ \E c \in Calls : JsonSettles(c) /\ UNCHANGED <<serviceVars, callerVars>>

ConcSpec == Init /\ [][ConcNext]_vars

\* --------------------------------------------------- callers side by side

\* Two callers of the one client; each awaits its own call before its next.
RaceCalls == {1, 2}

RaceMethods == {"subscribeWebhook", "updateWebhook", "deleteWebhook"}

\* Both callers work on the same webhook.
RaceArgsOf(m) ==
  CASE m = "subscribeWebhook" -> HookArgsOf(m)
    [] m = "updateWebhook" ->
         [id : {Str(<<"w", "h", "_", "1">>)}, query : {U},
          body : {Bag(<< <<<<"status">>, Str(<<"paused">>)>> >>)}]
    [] OTHER -> [id : {Str(<<"w", "h", "_", "1">>)}, query : {U}, body : {U}]

\* The callers do not wait for each other; the service handles the requests
\* on the network in any order, and a timer can end a call at any point.
RaceNext ==
  \/ Construct(HookConfig) /\ UNCHANGED <<serviceVars, callerVars>>
  \/ \E c \in RaceCalls, m \in RaceMethods : \E a \in RaceArgsOf(m) :
       Invoke(c, m, a) /\ UNCHANGED <<serviceVars, callerVars>>
  \/ \E c \in RaceCalls : ServiceHandles(c)
  \/ \E c \in RaceCalls : ServiceHandlesLate(c)
  \/ \E c \in RaceCalls : Delivers(c)
  \/ \E c \in RaceCalls : TimerFires(c) /\ Dropped(c)
  \/ \E c \in RaceCalls : JsonSettles(c) /\ UNCHANGED <<serviceVars, callerVars>>

RaceSpec == Init /\ [][RaceNext]_vars

\* ------------------------------------------------------------------- claims

IsTimeout(c) == outcome[c] = Thrown(TimeoutError(client.timeoutMs))

IsApiError(c) == outcome[c].kind = "error" /\ outcome[c].v.cls = "SoroScanError"

Responded(c) == response[c] # NoResponse

BaseHeaders ==
  { <<"Content-Type", <<"application/json">>>>, <<"Accept", <<"application/json">>>> }

\* C1 as stated: every invocation that has started stands at exactly one
\* request handed to fetch, whatever became of it.
C1_ExactlyOneRequest ==
  \A c \in Calls : pc[c] # "idle" => Len(sent[c]) = 1

\* C1 amended: no invocation ever hands fetch more than one request, and
\* every invocation hands it exactly one unless building the path threw
\* URIError (an identifier with a lone surrogate), which sends none.
C1_AtMostOneRequest ==
  \A c \in Calls :
    /\ Len(sent[c]) <= 1
    /\ pc[c] # "idle" =>
         (Len(sent[c]) = 1 <=> outcome[c] # Thrown(UriError))

\* A call that failed in transport, having sent its one request.
C1_Witness ==
  \E c \in Calls :
    /\ pc[c] = "done"
    /\ rejection[c] \in FetchFailures
    /\ outcome[c] = Thrown(rejection[c])
    /\ Len(sent[c]) = 1

\* C2: a completed call ended in the Timeout error if and only if its own
\* timer aborted its request.
C2_TimeoutIffOwnTimer ==
  \A c \in Calls :
    pc[c] = "done" => (IsTimeout(c) <=> rejection[c] = SignalAbortReason(c))

\* C3: a call whose fetch rejected for a reason other than its timer
\* rejects with the very value fetch rejected with.
C3_TransportErrorUnwrapped ==
  \A c \in Calls :
    (pc[c] = "done" /\ rejection[c] \in FetchFailures) => outcome[c] = Thrown(rejection[c])

\* C4: no completed call leaves its timer armed, and a timer is armed only
\* while the request is awaited.
C4_TimerDisarmed ==
  \A c \in Calls : timer[c] = "armed" => pc[c] = "fetch"

\* A call that completed with an Api error and a cleared timer.
C4_Witness ==
  \E c \in Calls : pc[c] = "done" /\ IsApiError(c) /\ timer[c] = "cleared"

\* C5: a request in flight has its timer armed, and it leads to a response,
\* to a transport failure, or to the call completing with the Timeout error.
C5_TimeoutEventually ==
  \A c \in Calls :
    /\ [](pc[c] = "fetch" => timer[c] = "armed" /\ Len(sent[c]) = 1)
    /\ (pc[c] = "fetch") ~>
         \/ Responded(c)
         \/ rejection[c] \in FetchFailures
         \/ pc[c] = "done" /\ aborted[c] /\ IsTimeout(c)

\* A call that the timer ended with the Timeout error.
C5_Witness ==
  \E c \in Calls :
    /\ pc[c] = "done" /\ timer[c] = "fired" /\ aborted[c] /\ ~Responded(c)
    /\ IsTimeout(c)

\* C6: a 204 response completes the call with undefined, whatever the
\* method, without reading the body.
C6_NoContentReturnsUndefined ==
  \A c \in Calls :
    (Responded(c) /\ response[c].status = StatusNoContent) =>
      /\ pc[c] = "done"
      /\ outcome[c] = Returned(U)
      /\ ~bodyRead[c]

\* A list operation, which expects a page, answered with 204.
C6_Witness ==
  \E c \in Calls :
    /\ inv[c].method = "getEvents"
    /\ Responded(c) /\ response[c].status = StatusNoContent
    /\ outcome[c] = Returned(U)

\* C7: a non-success status with a body of the API Error shape fails with a
\* SoroScanError carrying the status and the body's code, message, details.
C7_ApiErrorFromBody ==
  \A c \in Calls :
    ( /\ pc[c] = "done" /\ Responded(c)
      /\ ~ResponseOk(response[c].status)
      /\ response[c].body.kind = "json"
      /\ ConformsToApiError(response[c].body.value) ) =>
        /\ IsApiError(c)
        /\ outcome[c].v.statusCode = response[c].status
        /\ outcome[c].v.code = response[c].body.value.code
        /\ outcome[c].v.message = response[c].body.value.message.s
        /\ outcome[c].v.details = response[c].body.value.details

\* A by-id call on a missing resource: 404 with a NOT_FOUND body.
C7_Witness ==
  \E c \in Calls :
    /\ inv[c].method = "getWebhook"
    /\ pc[c] = "done"
    /\ response[c].status = 404
    /\ IsApiError(c)
    /\ outcome[c].v.code = Str(<<"NOT_FOUND">>)
    /\ outcome[c].v.statusCode = 404

\* C8: a non-success status whose body is absent, not JSON, or JSON not of
\* the API Error shape fails with code "UNKNOWN_ERROR" and the message
\* "HTTP <status> <statusText>".
C8_FallbackForNonConforming ==
  \A c \in Calls :
    ( /\ pc[c] = "done" /\ Responded(c)
      /\ ~ResponseOk(response[c].status)
      /\ ~(response[c].body.kind = "json" /\ ConformsToApiError(response[c].body.value)) ) =>
        /\ IsApiError(c)
        /\ outcome[c].v.code = Str(<<"UNKNOWN_ERROR">>)
        /\ outcome[c].v.message =
             <<"HTTP ">> \o DecimalText(response[c].status) \o <<" ">> \o <<response[c].statusText>>

\* C9: a response outside 200-299 never yields a value, the call fails with
\* a SoroScanError of that status; a call has an outcome exactly when it
\* is done, and then a value or an error.
C9_NonOkNeverValue ==
  \A c \in Calls :
    /\ (Responded(c) /\ ~ResponseOk(response[c].status)) =>
         /\ outcome[c].kind # "value"
         /\ pc[c] = "done" => (IsApiError(c) /\ outcome[c].v.statusCode = response[c].status)
    /\ pc[c] = "done" <=> outcome[c].kind \in {"value", "error"}
    /\ pc[c] # "done" => outcome[c] = NoOutcome

\* A 500 whose body parses as JSON that is no error: still an Api error.
C9_Witness ==
  \E c \in Calls :
    /\ pc[c] = "done"
    /\ response[c].status = 500
    /\ response[c].body = [kind |-> "json", value |-> Obj(U, U, U, Str(<<"payload">>))]
    /\ IsApiError(c)
    /\ outcome[c].v.statusCode = 500

\* C10 as stated: the headers are Content-Type and Accept, plus
\* Authorization: Bearer <key> exactly when the configuration had an apiKey.
C10_AuthIffConfigured ==
  \A c \in Calls : \A i \in 1..Len(sent[c]) :
    sent[c][i].headers =
      BaseHeaders \cup (IF client.apiKey # U
                        THEN { <<"Authorization", <<"Bearer ">> \o client.apiKey.s>> }
                        ELSE {})

\* C10 amended: the headers are Content-Type and Accept, plus
\* Authorization: Bearer <key> exactly when the configured apiKey is a
\* non-empty string; an empty apiKey sends no Authorization header.
C10_AuthIffNonEmptyKey ==
  \A c \in Calls : \A i \in 1..Len(sent[c]) :
    LET names == { h[1] : h \in sent[c][i].headers } IN
    /\ BaseHeaders \subseteq sent[c][i].headers
    /\ names \subseteq {"Content-Type", "Accept", "Authorization"}
    /\ Cardinality(sent[c][i].headers) = Cardinality(names)
    /\ "Authorization" \in names <=> (client.apiKey # U /\ client.apiKey.s # <<>>)
    /\ "Authorization" \in names =>
         <<"Authorization", <<"Bearer ">> \o client.apiKey.s>> \in sent[c][i].headers

\* A request sent by a client that was given a key: exactly three headers.
C10_Witness ==
  \E c \in Calls :
    /\ Len(sent[c]) = 1
    /\ client.apiKey = Str(<<"my-api-key">>)
    /\ sent[c][1].headers =
         BaseHeaders \cup { <<"Authorization", <<"Bearer ", "my-api-key">>>> }

\* The query component of a URL: from its first "?" on, or nothing.
RECURSIVE QueryOf(_)
QueryOf(url) ==
  IF url = <<>> THEN <<>>
  ELSE IF Head(url) = "?" THEN url ELSE QueryOf(Tail(url))

\* The pieces of s between the occurrences of sep.
RECURSIVE SplitOn(_, _)
SplitOn(s, sep) ==
  IF s = <<>> THEN << <<>> >>
  ELSE LET rest == SplitOn(Tail(s), sep)
       IN IF Head(s) = sep
          THEN << <<>> >> \o rest
          ELSE << <<Head(s)>> \o Head(rest) >> \o Tail(rest)

\* What a form-urlencoded parser makes of one token.
FormDecodeToken(tok) ==
  CASE tok = "+" -> " "
    [] tok = "%2F" -> "/"
    [] tok = "%3F" -> "?"
    [] tok = "%23" -> "#"
    [] tok = "%26" -> "&"
    [] tok = "%3D" -> "="
    [] tok = "%2B" -> "+"
    [] tok = "%25" -> "%"
    [] tok = "%7E" -> "~"
    [] tok = "%21" -> "!"
    [] tok = "%EF%BF%BD" -> "\\uFFFD"
    [] OTHER -> tok

FormDecode(s) == [i \in 1..Len(s) |-> FormDecodeToken(s[i])]

\* The name/value pairs a server reads out of a query component, in order;
\* a piece without exactly one "=" reads as a malformed pair.
ParsePairs(q) ==
  IF q = <<>> THEN <<>>
  ELSE LET pieces == SplitOn(Tail(q), "&")
       IN [i \in 1..Len(pieces) |->
             LET nv == SplitOn(pieces[i], "=")
             IN IF Len(nv) = 2 THEN <<FormDecode(nv[1]), FormDecode(nv[2])>>
                ELSE << <<"malformed">>, <<>> >>]

\* A string as a sequence of Unicode scalar values: a lone surrogate reads
\* as U+FFFD.
ScalarValues(s) == [i \in 1..Len(s) |-> IF s[i] = LoneSurrogate THEN "\\uFFFD" ELSE s[i]]

\* The pairs a bag stands for: its entries that are neither undefined nor
\* null, in insertion order, each value as its string.
PairsOfBag(entries) ==
  LET present == SelectSeq(entries, LAMBDA e : e[2] # U /\ e[2] # N)
  IN [i \in 1..Len(present) |-> <<present[i][1], ScalarValues(JsString(present[i][2]))>>]

\* C11: the query string a list operation emits reads back as exactly the
\* bag's entries that are neither undefined nor null, each once, in insertion
\* order, each value stringified; a bag without such an entry leaves the URL
\* without any "?".
C11_QueryHasExactlyPresentKeys ==
  \A c \in Calls :
    (inv[c].method \in ListMethods /\ Len(sent[c]) = 1) =>
      /\ ParsePairs(QueryOf(sent[c][1].url)) = PairsOfBag(inv[c].query.entries)
      /\ PairsOfBag(inv[c].query.entries) = <<>> =>
           \A i \in 1..Len(sent[c][1].url) : sent[c][1].url[i] # "?"

\* A list call whose bag holds an absent entry before a present falsy one.
C11_Witness ==
  \E c \in Calls :
    /\ inv[c].method \in ListMethods
    /\ Len(sent[c]) = 1
    /\ Len(inv[c].query.entries) = 2
    /\ inv[c].query.entries[1][2] = N
    /\ inv[c].query.entries[2][2] = Num(0)

\* C12: a constructor call with an empty base URL throws the Configuration
\* error and leaves no client behind, so no call is ever started and no
\* request is ever handed to fetch.
C12_EmptyBaseUrlFailsAtConstruction ==
  (ctorConfig # U /\ ctorConfig.baseUrl = Str(<<>>)) =>
    /\ ctorThrown = ConfigurationError
    /\ client = NoClient
    /\ \A c \in Calls : pc[c] = "idle" /\ sent[c] = <<>>

\* The constructor was called with baseUrl "" and an API key, and threw.
C12_Witness ==
  /\ ctorConfig # U
  /\ ctorConfig.baseUrl = Str(<<>>)
  /\ ctorConfig.apiKey = Str(<<"my-api-key">>)
  /\ ctorThrown = ConfigurationError

\* C13 as stated: the base URL a client keeps never ends with "/", and no
\* request URL has two "/" in a row.
C13_NoTrailingSlash ==
  /\ client # NoClient =>
       (client.baseUrl = <<>> \/ client.baseUrl[Len(client.baseUrl)] # "/")
  /\ \A c \in Calls : Len(sent[c]) = 1 =>
       \A i \in 1..(Len(sent[c][1].url) - 1) :
         ~(sent[c][1].url[i] = "/" /\ sent[c][1].url[i + 1] = "/")

\* The message of a Timeout error, up to the duration.
TimedOutAfter == <<"SoroScanClient: request timed out after ">>

\* C14: every timer a call arms is set to the timeoutMs the constructor was
\* given, or to 30000 when it was given none, and a Timeout error's message
\* names that same number of milliseconds.
C14_TimeoutIsConfiguredOrDefault ==
  \A c \in Calls :
    LET ms == IF ctorConfig.timeoutMs \in {U, N} THEN 30000 ELSE ctorConfig.timeoutMs.n
    IN /\ timer[c] # "unset" => timerMs[c] = ms
       /\ (/\ outcome[c].kind = "error"
           /\ Len(outcome[c].v.message) > 0
           /\ SubSeq(outcome[c].v.message, 1, 1) = TimedOutAfter)
          => outcome[c].v.message = TimedOutAfter \o DecimalText(ms) \o <<"ms">>

\* A call on a client constructed with timeoutMs 0 ended in the Timeout error.
C14_Witness ==
  \E c \in Calls :
    /\ ctorConfig # U
    /\ ctorConfig.timeoutMs = Num(0)
    /\ timer[c] = "fired"
    /\ outcome[c] = Thrown(TimeoutError(0))

\* Characters that end a path segment or start a query or a fragment.
UrlDelimiters == {"/", "?", "#"}

\* C15: a by-id call that sends a request targets the client's base URL, the
\* method's resource prefix, "/" and one more segment, which holds no "/",
\* "?" or "#" and percent-decodes to the identifier; a by-id call that sends
\* none was given an identifier that cannot be encoded.
C15_IdentifierIsOneEncodedSegment ==
  \A c \in Calls :
    (pc[c] # "idle" /\ inv[c].method \in ByIdMethods) =>
      IF Len(sent[c]) = 1
      THEN LET url == sent[c][1].url
               stem == client.baseUrl \o PrefixOf(inv[c].method) \o <<"/">>
               segment == SubSeq(url, Len(stem) + 1, Len(url))
           IN /\ Len(url) >= Len(stem)
              /\ SubSeq(url, 1, Len(stem)) = stem
              /\ \A i \in 1..Len(segment) : segment[i] \notin UrlDelimiters
              /\ UriDecode(segment) = inv[c].id.s
      ELSE /\ sent[c] = <<>>
           /\ \E i \in 1..Len(inv[c].id.s) : inv[c].id.s[i] = LoneSurrogate

\* deleteWebhook was called with the identifier "/?" and sent its request.
C15_Witness ==
  \E c \in Calls :
    /\ inv[c].method = "deleteWebhook"
    /\ inv[c].id = Str(<<"/", "?">>)
    /\ Len(sent[c]) = 1

\* C16: a call answered with a 2xx status other than 204 and a JSON body
\* returns the value that body parses to, whatever its shape; a page comes
\* back with the same items in the same order, the same pageInfo and the same
\* totalCount.
C16_SuccessBodyUnmodified ==
  \A c \in Calls :
    (/\ pc[c] = "done"
     /\ Responded(c)
     /\ response[c].status \in 200..299
     /\ response[c].status # 204
     /\ response[c].body.kind = "json")
    => /\ outcome[c] = Returned(response[c].body.value)
       /\ response[c].body.value.t = "page" =>
            /\ outcome[c].v.items = response[c].body.value.items
            /\ outcome[c].v.pageInfo = response[c].body.value.pageInfo
            /\ outcome[c].v.totalCount = response[c].body.value.totalCount

\* getEvents was answered 200 with a page of three items and returned.
C16_Witness ==
  \E c \in Calls :
    /\ pc[c] = "done"
    /\ inv[c].method = "getEvents"
    /\ response[c].status = 200
    /\ response[c].body.kind = "json"
    /\ response[c].body.value.t = "page"
    /\ outcome[c].kind = "value"
    /\ Len(outcome[c].v.items) = 3

\* The call ended in an Api error of the not-found shape.
IsNotFoundError(c) ==
  /\ outcome[c].kind = "error"
  /\ outcome[c].v.cls = "SoroScanError"
  /\ outcome[c].v.statusCode = 404
  /\ outcome[c].v.code = Str(<<"NOT_FOUND">>)

\* C17: a deleted webhook stays deleted; the service answers every request
\* on a deleted identifier (get, update or delete) with the not-found
\* response and leaves its store as it was; and a call that received that
\* response ends in an Api error with status 404 and code NOT_FOUND.
C17_DeletedStaysNotFound ==
  /\ [][\A h \in HookIds : hooks[h] = "deleted" => hooks'[h] = "deleted"]_vars
  /\ [][\A c \in Calls :
          (/\ reply[c] = NoResponse
           /\ reply'[c] # NoResponse
           /\ IsItemRequest(sent[c][1])
           /\ TargetOf(sent[c][1]) \in HookIds
           /\ hooks[TargetOf(sent[c][1])] = "deleted")
          => (reply'[c] = NotFoundResponse /\ hooks' = hooks)]_vars
  /\ [](\A c \in Calls :
          (pc[c] = "done" /\ response[c] = NotFoundResponse) => IsNotFoundError(c))

\* deleteWebhook("a/b") on the already deleted webhook ended in not-found.
C17_Witness ==
  \E c \in Calls :
    /\ pc[c] = "done"
    /\ inv[c].method = "deleteWebhook"
    /\ inv[c].id = Str(<<"a", "/", "b">>)
    /\ hooks[<<"a", "/", "b">>] = "deleted"
    /\ IsNotFoundError(c)

\* C18: a request body never carries status "failed", and a status travels
\* only in a PATCH, as "active" or "paused"; a step in which the service
\* handles a client's request moves no webhook between the states active,
\* paused and failed except active to paused and paused to active (whether
\* the request's call is still waiting or has ended), so a webhook becomes
\* failed only in a step of the service's own.
C18_FailedOnlyByService ==
  /\ [](\A c \in Calls :
          Len(sent[c]) = 1 =>
            /\ RequestedStatus(sent[c][1]) # Str(<<"failed">>)
            /\ RequestedStatus(sent[c][1]) # U =>
                 /\ sent[c][1].method = "PATCH"
                 /\ RequestedStatus(sent[c][1]) \in {Str(<<"active">>), Str(<<"paused">>)})
  /\ [][\A h \in HookIds :
          ((reply' # reply \/ orphan' # orphan) /\ hooks[h] \in {"active", "paused", "failed"}
             /\ hooks'[h] \in {"active", "paused", "failed"} /\ hooks'[h] # hooks[h])
          => <<hooks[h], hooks'[h]>> \in {<<"active", "paused">>, <<"paused", "active">>}]_vars
  /\ [][\A h \in HookIds :
          (hooks[h] # "failed" /\ hooks'[h] = "failed")
          => (reply' = reply /\ orphan' = orphan /\ pc' = pc)]_vars

\* updateWebhook paused one webhook while the service had failed the other.
C18_Witness ==
  \E c \in Calls :
    /\ pc[c] = "done"
    /\ inv[c].method = "updateWebhook"
    /\ outcome[c] = Returned(WebhookJson(<<"w", "h", "_", "1">>, "paused"))
    /\ hooks[<<"a", "/", "b">>] = "failed"

\* The value a parameter object holds under a key, or undefined.
FieldOf(bag, key) ==
  LET es == SelectSeq(bag.entries, LAMBDA e : e[1] = <<key>>)
  IN IF es = <<>> THEN U ELSE es[1][2]

\* C19 as stated: a subscribeWebhook call whose url is empty or whose trigger
\* set is empty sends no request and ends in an error.
C19_SubscribeRejectsEmptyInput ==
  \A c \in Calls :
    (/\ inv[c].method = "subscribeWebhook"
     /\ \/ FieldOf(inv[c].body, "url") = Str(<<>>)
        \/ FieldOf(inv[c].body, "triggers") = Arr(<<>>))
    => /\ sent[c] = <<>>
       /\ pc[c] = "done"
       /\ outcome[c].kind = "error"

\* C20: a step in which one call's armed timer fires or is cleared leaves
\* every other call's position, outcome, timer, abort signal and rejection
\* as they were; a call's signal becomes aborted only in the step in which
\* its own timer fires.
C20_TimersAreIndependent ==
  /\ [][\A c \in Calls :
          (timer[c] = "armed" /\ timer'[c] # "armed") =>
            \A d \in Calls \ {c} :
              /\ pc'[d] = pc[d]
              /\ outcome'[d] = outcome[d]
              /\ timer'[d] = timer[d]
              /\ aborted'[d] = aborted[d]
              /\ rejection'[d] = rejection[d]]_vars
  /\ [][\A c \in Calls :
          (aborted'[c] /\ ~aborted[c]) => (timer[c] = "armed" /\ timer'[c] = "fired")]_vars

\* One call has timed out while another, untouched, is still in flight with
\* its timer armed.
C20_Witness ==
  \E c, d \in Calls :
    /\ c # d
    /\ timer[c] = "fired"
    /\ IsTimeout(c)
    /\ pc[d] = "fetch"
    /\ timer[d] = "armed"
    /\ ~aborted[d]

\* All that belongs to one call.
CallState(c) ==
  <<pc[c], inv[c], sent[c], timer[c], timerMs[c], aborted[c], response[c], rejection[c],
    bodyRead[c], outcome[c]>>

\* C21: once constructed, the client's fields never change; a step changes
\* the state of at most one call; two calls given the same arguments send
\* the same request, and if fetch settled the same way for both (the same
\* response, the same failure, or each one's own timer) they report the same
\* outcome, whatever the other calls did in between.
C21_CallsShareOnlyConfiguration ==
  /\ [][client # NoClient => client' = client]_vars
  /\ [][\A c, d \in Calls : (c # d /\ CallState(c)' # CallState(c)) => CallState(d)' = CallState(d)]_vars
  /\ [](\A c, d \in Calls :
          (pc[c] # "idle" /\ pc[d] # "idle" /\ inv[c] = inv[d]) =>
            /\ sent[c] = sent[d]
            /\ (/\ pc[c] = "done"
                /\ pc[d] = "done"
                /\ response[c] = response[d]
                /\ aborted[c] = aborted[d]
                /\ (aborted[c] \/ rejection[c] = rejection[d]))
               => outcome[c] = outcome[d])

\* Two calls with the same arguments were in flight together and ended
\* differently, one with a value and one with an Api error.
C21_Witness ==
  \E c, d \in Calls :
    /\ c # d
    /\ inv[c] = inv[d]
    /\ pc[c] = "done"
    /\ pc[d] = "done"
    /\ outcome[c].kind = "value"
    /\ IsApiError(d)

C22_WitnessUpdateFirst ==
  \E c, d \in Calls :
    /\ pc[c] = "fetch"
    /\ pc[d] = "fetch"
    /\ inv[c].method = "updateWebhook"
    /\ inv[d].method = "deleteWebhook"
    /\ inv[c].id = inv[d].id
    /\ reply[c].status = 200
    /\ reply[d] = NoContentResponse

CursorKeys == {"after", "before"}

\* The values the query component of a URL holds under a name, decoded.
ParamsOf(url, key) ==
  LET ps == SelectSeq(ParsePairs(QueryOf(url)), LAMBDA p : p[1] = <<key>>)
  IN [i \in 1..Len(ps) |-> ps[i][2]]

\* C23 as stated: the query parameter a list call sends for its after or
\* before cursor decodes to exactly the string the caller passed.
C23_CursorVerbatim ==
  \A c \in Calls : \A key \in CursorKeys :
    (/\ inv[c].method \in ListMethods
     /\ Len(sent[c]) = 1
     /\ FieldOf(inv[c].query, key).t = "str")
    => ParamsOf(sent[c][1].url, key) = <<FieldOf(inv[c].query, key).s>>

\* C23 amended: the parameter decodes to the cursor as a sequence of Unicode
\* scalar values, which is the cursor itself unless it holds a lone
\* surrogate; each lone surrogate arrives as U+FFFD.
C23_CursorVerbatimIfWellFormed ==
  \A c \in Calls : \A key \in CursorKeys :
    (/\ inv[c].method \in ListMethods
     /\ Len(sent[c]) = 1
     /\ FieldOf(inv[c].query, key).t = "str")
    => LET cursor == FieldOf(inv[c].query, key).s
       IN /\ ParamsOf(sent[c][1].url, key) = <<ScalarValues(cursor)>>
          /\ UriEncodable(cursor) => ParamsOf(sent[c][1].url, key) = <<cursor>>

\* A list call sent a cursor made of characters the query syntax reserves.
C23_Witness ==
  \E c \in Calls :
    /\ inv[c].method \in ListMethods
    /\ Len(sent[c]) = 1
    /\ FieldOf(inv[c].query, "before") = Str(<<"a", "&", "=", " ", "+", "%">>)
    /\ ParamsOf(sent[c][1].url, "before") = << <<"a", "&", "=", " ", "+", "%">> >>

\* C24: the error kinds are told apart by their values: a call whose fetch
\* rejected for a reason other than its own timer never throws a value equal
\* to the Timeout or the Configuration error, and every Api error has a
\* numeric status code and a string code.
C24_ErrorKindsDistinguishable ==
  \A c \in Calls :
    /\ (pc[c] = "done" /\ rejection[c] \in FetchFailures) =>
         outcome[c].v \notin {TimeoutError(client.timeoutMs), ConfigurationError}
    /\ IsApiError(c) =>
         /\ outcome[c].v.statusCode \in Nat
         /\ outcome[c].v.code.t = "str"

\* The endpoint table of the interface: verb, path prefix, and whether an
\* identifier follows the prefix.
ListedEndpoint(m) ==
  CASE m = "getEvents" -> <<"GET", <<"/", "v1", "/", "events">>, FALSE>>
    [] m = "getContracts" -> <<"GET", <<"/", "v1", "/", "contracts">>, FALSE>>
    [] m = "getContract" -> <<"GET", <<"/", "v1", "/", "contracts">>, TRUE>>
    [] m = "getTransactions" -> <<"GET", <<"/", "v1", "/", "transactions">>, FALSE>>
    [] m = "getTransaction" -> <<"GET", <<"/", "v1", "/", "transactions">>, TRUE>>
    [] m = "getLedgers" -> <<"GET", <<"/", "v1", "/", "ledgers">>, FALSE>>
    [] m = "getLedger" -> <<"GET", <<"/", "v1", "/", "ledgers">>, TRUE>>
    [] m = "getAccount" -> <<"GET", <<"/", "v1", "/", "accounts">>, TRUE>>
    [] m = "listWebhooks" -> <<"GET", <<"/", "v1", "/", "webhooks">>, FALSE>>
    [] m = "getWebhook" -> <<"GET", <<"/", "v1", "/", "webhooks">>, TRUE>>
    [] m = "subscribeWebhook" -> <<"POST", <<"/", "v1", "/", "webhooks">>, FALSE>>
    [] m = "updateWebhook" -> <<"PATCH", <<"/", "v1", "/", "webhooks">>, TRUE>>
    [] m = "deleteWebhook" -> <<"DELETE", <<"/", "v1", "/", "webhooks">>, TRUE>>

\* The part of a URL before its query component.
BeforeQuery(url) == SubSeq(url, 1, Len(url) - Len(QueryOf(url)))

\* C25: every request a method hands to fetch has the verb of its endpoint
\* and, after the base URL, the endpoint's path (the prefix alone, or the
\* prefix, "/" and one segment); it has a body only if the method is
\* subscribeWebhook or updateWebhook and a query component only if the
\* method is one of the four list operations.
C25_VerbPathBodyQueryPerEndpoint ==
  \A c \in Calls :
    Len(sent[c]) = 1 =>
      LET req == sent[c][1]
          ep == ListedEndpoint(inv[c].method)
          stem == client.baseUrl \o ep[2]
          path == BeforeQuery(req.url)
          rest == SubSeq(path, Len(stem) + 1, Len(path))
      IN /\ req.method = ep[1]
         /\ Len(path) >= Len(stem)
         /\ SubSeq(path, 1, Len(stem)) = stem
         /\ IF ep[3]
            THEN /\ rest # <<>>
                 /\ Head(rest) = "/"
                 /\ \A i \in 2..Len(rest) : rest[i] \notin UrlDelimiters
            ELSE rest = <<>>
         /\ req.body # U => inv[c].method \in {"subscribeWebhook", "updateWebhook"}
         /\ QueryOf(req.url) # <<>> =>
              inv[c].method \in {"getEvents", "getContracts", "getTransactions", "getLedgers"}

\* An update was sent as PATCH to its webhook's path, with a body and no query.
C25_Witness ==
  \E c \in Calls :
    /\ Len(sent[c]) = 1
    /\ inv[c].method = "updateWebhook"
    /\ sent[c][1].method = "PATCH"
    /\ sent[c][1].body # U
    /\ QueryOf(sent[c][1].url) = <<>>

\* A list call was sent as GET with a query component and no body.
C25_WitnessQuery ==
  \E c \in Calls :
    /\ Len(sent[c]) = 1
    /\ inv[c].method = "getLedgers"
    /\ sent[c][1].method = "GET"
    /\ sent[c][1].body = U
    /\ QueryOf(sent[c][1].url) # <<>>

\* A response whose body is empty or is not JSON text.
Unparseable(r) == r.body.kind \in {"notjson", "empty"}

\* C26: a completed call whose response, other than a 204, had an empty or
\* non-JSON body returned null if the status was a success and otherwise
\* failed with the Api error synthesized from the status line; it never
\* failed with anything else.
C26_ParseFailureIsNull ==
  \A c \in Calls :
    (/\ pc[c] = "done" /\ Responded(c)
     /\ response[c].status # StatusNoContent
     /\ Unparseable(response[c]))
    => IF ResponseOk(response[c].status)
       THEN outcome[c] = Returned(N)
       ELSE /\ IsApiError(c)
            /\ outcome[c].v.statusCode = response[c].status
            /\ outcome[c].v.code = Str(<<"UNKNOWN_ERROR">>)

\* A call answered 200 with text that is not JSON returned null.
C26_Witness ==
  \E c \in Calls :
    /\ pc[c] = "done"
    /\ response[c].status = 200
    /\ response[c].body.kind = "notjson"
    /\ outcome[c] = Returned(N)

\* The decimal digits of a non-negative integer.
DecimalDigits(v) ==
  IF v.t = "pow10" THEN <<"1">> \o [i \in 1..v.e |-> "0"] ELSE DecimalText(v.n)

\* C27 as stated: every request of getLedger targets the base URL, the
\* ledgers prefix, "/" and the decimal digits of the sequence.
C27_LedgerPathIsDecimalDigits ==
  \A c \in Calls :
    (inv[c].method = "getLedger" /\ pc[c] # "idle") =>
      /\ Len(sent[c]) = 1
      /\ sent[c][1].url =
           client.baseUrl \o <<"/", "v1", "/", "ledgers", "/">> \o DecimalDigits(inv[c].id)

\* C27 amended: the request targets the base URL, the ledgers prefix, "/"
\* and the sequence as String writes it, never percent-encoded; that text
\* is the decimal digits for every sequence below 10^21 and exponent
\* notation from 10^21 on.
C27_LedgerPathIsNumberText ==
  \A c \in Calls :
    (inv[c].method = "getLedger" /\ pc[c] # "idle") =>
      LET stem == client.baseUrl \o <<"/", "v1", "/", "ledgers", "/">>
      IN /\ Len(sent[c]) = 1
         /\ \A i \in 1..Len(sent[c][1].url) : sent[c][1].url[i] # "%"
         /\ IF inv[c].id.t = "num"
            THEN sent[c][1].url = stem \o DecimalDigits(inv[c].id)
            ELSE sent[c][1].url = stem \o <<"1", "e", "+">> \o DecimalDigits(Num(inv[c].id.e))

\* getLedger(123456) asked for /v1/ledgers/123456.
C27_Witness ==
  \E c \in Calls :
    /\ inv[c].method = "getLedger"
    /\ inv[c].id = Num(123456)
    /\ Len(sent[c]) = 1
    /\ sent[c][1].url = client.baseUrl \o <<"/", "v1", "/", "ledgers", "/", "1", "2", "3", "4", "5", "6">>

\* ------------------------------------------------------ the pagination loop

MaxPages == 3

\* The end cursor the service puts on its i-th page: a token of its own, the
\* empty string, or null.
EndCursors(i) == { Str(<<"c", Digits[i + 1]>>), Str(<<>>), N }

\* The page chains the service can hold: one to MaxPages pages, each but the
\* last saying that a further page exists.
PageChains ==
  UNION { { [i \in 1..n |->
              Page(<<Digits[i + 1]>>,
                   [hasNextPage |-> i < n, hasPreviousPage |-> i > 1,
                    startCursor |-> N, endCursor |-> cur[i]],
                   Num(n))] :
            cur \in { f \in [1..n -> UNION { EndCursors(i) : i \in 1..n }] :
                        \A i \in 1..n : f[i] \in EndCursors(i) } } :
          n \in 1..MaxPages }

\* The page a request asks for: the first without an after parameter, else
\* the one that follows the page whose end cursor the parameter is; 0 if
\* there is none.
PageAsked(chain, url) ==
  LET given == ParamsOf(url, "after")
      at == { i \in 1..Len(chain) :
                /\ chain[i].pageInfo.endCursor.t = "str"
                /\ <<chain[i].pageInfo.endCursor.s>> = given }
  IN IF given = <<>> THEN 1
     ELSE IF at = {} THEN 0
     ELSE LET i == CHOOSE j \in at : \A k \in at : j <= k
          IN IF i < Len(chain) THEN i + 1 ELSE 0

\* The service's answer to a list request.
PageResponse(chain, url) ==
  IF PageAsked(chain, url) = 0
  THEN JsonResponse(400, "Bad Request",
                    Obj(Str(<<"INVALID_CURSOR">>), Str(<<"Unknown cursor">>), U, U))
  ELSE JsonResponse(200, "OK", chain[PageAsked(chain, url)])

\* The parameters of one iteration:
\* { contractId: "CCAAA...", first: 100, ...(after ? { after } : {}) }
LoopParams(after) ==
  Bag(<< <<<<"contractId">>, Str(<<"CCAAA...">>)>>, <<<<"first">>, Num(100)>> >>
      \o (IF Falsy(after) THEN <<>> ELSE << <<<<"after">>, after>> >>))

\* let after = null; do { ... }, against a service holding a page chain.
LoopStarts(chain) ==
  /\ client # NoClient
  /\ loop = NoLoop
  /\ loop' = [pc |-> "top", after |-> N, visited |-> <<>>, chain |-> chain]
  /\ UNCHANGED <<clientVars, callVars, serviceVars>>

\* One iteration whose call returned: the page is awaited, its items are
\* processed, after becomes the page's end cursor if it says a further page
\* exists and null if not, and while (after) decides.
LoopIterates ==
  /\ loop.pc = "top"
  /\ LET req == RequestOf(client, "getEvents", [id |-> U, query |-> LoopParams(loop.after), body |-> U])
         r == PageResponse(loop.chain, req.url)
         result == Decode(r, ParsedJson(r.body, FALSE))
     IN IF result.kind = "error"
        THEN loop' = [loop EXCEPT !.pc = "threw"]
        ELSE LET page == result.v
                 next == IF page.pageInfo.hasNextPage THEN page.pageInfo.endCursor ELSE N
             IN loop' = [loop EXCEPT !.visited = Append(@, PageAsked(loop.chain, req.url)),
                                     !.after = next,
                                     !.pc = IF Falsy(next) THEN "stopped" ELSE "top"]
  /\ UNCHANGED <<clientVars, callVars, serviceVars>>

\* One iteration whose call failed: the rejection leaves the loop.
LoopCallFails ==
  /\ loop.pc = "top"
  /\ \E err \in FetchFailures :
       CatchOutcome(err, client.timeoutMs).kind = "error" /\ loop' = [loop EXCEPT !.pc = "threw"]
  /\ UNCHANGED <<clientVars, callVars, serviceVars>>

PageNext ==
  \/ \E config \in Configs : Construct(config) /\ UNCHANGED <<serviceVars, callerVars>>
  \/ \E chain \in PageChains : LoopStarts(chain)
  \/ LoopIterates
  \/ LoopCallFails

PageSpec == Init /\ [][PageNext]_vars

\* C28: the pagination loop processes the service's pages in order from the
\* first, each once, and it has stopped only after processing a page that
\* says no further page exists, which is the only such page it processed.
C28_LoopVisitsEveryPage ==
  /\ \A i \in 1..Len(loop.visited) : loop.visited[i] = i
  /\ Len(loop.visited) <= Len(loop.chain)
  /\ \A i \in 1..Len(loop.visited) :
       ~loop.chain[i].pageInfo.hasNextPage => i = Len(loop.visited)
  /\ loop.pc = "stopped" =>
       /\ loop.visited # <<>>
       /\ ~loop.chain[Len(loop.visited)].pageInfo.hasNextPage

\* C29: once fetch has resolved with a response the call's timer is cleared,
\* already while the body is being read, its signal is never aborted, and
\* the call does not end in the Timeout error.
C29_TimeoutCoversOnlyResponseHead ==
  \A c \in Calls :
    Responded(c) =>
      /\ timer[c] = "cleared"
      /\ ~aborted[c]
      /\ ~IsTimeout(c)
      /\ pc[c] \in {"json", "done"}

\* A call is reading the body of its response, its timer cleared.
C29_Witness ==
  \E c \in Calls :
    /\ pc[c] = "json"
    /\ Responded(c)
    /\ bodyRead[c]
    /\ timer[c] = "cleared"

\* C30: a constructed client's effective base URL is not empty, and no
\* request URL starts directly with the path.
C30_BaseUrlNeverEmpty ==
  /\ client # NoClient => client.baseUrl # <<>>
  /\ \A c \in Calls : \A i \in 1..Len(sent[c]) : Head(sent[c][i].url) # "/"

====
